---- MODULE Spec2Model ----
(***************************************************************************)
(* State-machine model of the simple-whiteboard custom elements.           *)
(*                                                                         *)
(*   - src/src/whiteboard.ts : the <simple-whiteboard> element (item list, *)
(*     pan offset, draft, active tool, pointer/touch handlers, render      *)
(*     loop) and the module function getSvgPathFromStroke.                 *)
(*   - src/src/tools/rect.ts : the <simple-whiteboard--tool-rect> plugin,  *)
(*     whose handlers act on a host element through accessor methods.      *)
(*                                                                         *)
(* Numbers are integers.  Math.sqrt is kept exact: a diameter is stored as *)
(* the pair (factor, radicand) standing for factor * sqrt(radicand).       *)
(*                                                                         *)
(* Spec is the whiteboard element, ToolSpec the rect tool on a host whose  *)
(* accessors are modelled from the specification, AllSpec both, PathSpec   *)
(* the function getSvgPathFromStroke applied to bounded point lists,       *)
(* BoxSpec the rect tool's getBoundingRect applied to bounded rect items.  *)
(***************************************************************************)
EXTENDS Integers, Sequences, FiniteSets, TLC

\* ------------------------------------------------------------------ bounds
\* Pointer positions are the points (i, 2*i), i in 0..MaxCoord.
MaxCoord == 1
\* A session delivers at most MaxEvents events to the handlers.
MaxEvents == 8
\* getSvgPathFromStroke is applied to point lists of length 0..MaxLen.
MaxLen == 5
\* generateId draws item ids from 1..MaxId.
MaxId == 2

VARIABLES
    mount,           \* which element is exercised, and whether it has a host
    items,           \* Whiteboard.items: the committed shapes, in order
    canvasCoords,    \* Whiteboard.canvasCoords: the pan offset
    currentDrawing,  \* Whiteboard.currentDrawing: the draft, or NoDrawing
    currentTool,     \* Whiteboard.currentTool
    canvas,          \* the calls the last draw() made on the canvas (ops),
                     \* and how many times draw() has run (runs)
    gesture,         \* history: the pointer events of the latest gesture
    points,          \* getSvgPathFromStroke: argument
    closed,          \* getSvgPathFromStroke: argument
    result,          \* getSvgPathFromStroke: returned path
    boxItem,         \* Rect.getBoundingRect: argument (item)
    boundingRect,    \* Rect.getBoundingRect: returned box
    events           \* the number of events delivered so far

\* The state the handlers read and write.
state == <<mount, items, canvasCoords, currentDrawing, currentTool, canvas,
           gesture, points, closed, result, boxItem, boundingRect>>

vars == <<state, events>>

\* One more event is delivered to a handler.
Deliver == events < MaxEvents /\ events' = events + 1

strokeVars == <<points, closed, result>>

boxVars == <<boxItem, boundingRect>>

\* The arguments and results of the functions applied on their own.
callVars == <<strokeVars, boxVars>>

\* ------------------------------------------------------------------ values
Abs(n) == IF n < 0 THEN -n ELSE n

\* Pointer positions handed to the handlers (e.offsetX, e.offsetY).
Pts == {[x |-> i, y |-> 2 * i] : i \in 0..MaxCoord}

\* currentDrawing = undefined (whiteboard.ts) or null (rect.ts host).
NoDrawing == [kind |-> "none"]

\* The tools of the toolbar buttons.
Tools == {"move", "rect", "circle", "line", "pen"}

\* options: {}
EmptyOptions == <<>>

\* History of the latest gesture, kept for stating the properties:
\*   phase   "idle" (none yet), "drawing", "done" (pointer-up), "cancelled"
\*   tool    the active tool at the pointer-down
\*   p0      the pointer-down position
\*   trail   the positions of the pointer-moves handled since, in order
\*   pan0    the pan offset at the pointer-down
\*   items0  the committed list at the pointer-down
\*   changed whether the active tool was changed to another one since
NoGesture ==
    [phase |-> "idle", tool |-> "none", p0 |-> [x |-> 0, y |-> 0],
     trail |-> <<>>, pan0 |-> [x |-> 0, y |-> 0], items0 |-> <<>>,
     changed |-> FALSE]

\* ------------------------------------------------------ getSvgPathFromStroke
\* Numbers of the path are carried in hundredths.
average(a, b) == ((a + b) * 100) \div 2

\* n.toFixed(2) of a number given in hundredths: sign, whole part, 2 digits.
toFixed2(h) ==
    [neg |-> h < 0, whole |-> Abs(h) \div 100, frac |-> Abs(h) % 100]

RECURSIVE PathLoop(_, _, _, _)
PathLoop(pts, i, max, acc) ==
    IF i < max
    THEN PathLoop(pts, i + 1, max,
                  acc \o <<toFixed2(average(pts[i + 1][1], pts[i + 2][1])), ",",
                           toFixed2(average(pts[i + 1][2], pts[i + 2][2])), " ">>)
    ELSE acc

\* Mutant: the length test is off by one (len < 3).
getSvgPathFromStroke_len3(pts, isClosed) ==
    LET len == Len(pts) IN
    IF len < 3
    THEN <<>>
    ELSE LET a == pts[1]
             b == pts[2]
             c == pts[3]
             head == <<"M", toFixed2(a[1] * 100), ",", toFixed2(a[2] * 100),
                       " Q", toFixed2(b[1] * 100), ",", toFixed2(b[2] * 100),
                       " ", toFixed2(average(b[1], c[1])), ",",
                       toFixed2(average(b[2], c[2])), " T">>
             body == PathLoop(pts, 2, len - 1, head)
         IN IF isClosed THEN body \o <<"Z">> ELSE body

\* The path is a sequence of string pieces and formatted numbers; the empty
\* string is the empty sequence.  pts is 1-based: points[k] is pts[k + 1].
getSvgPathFromStroke(pts, isClosed) ==
    LET len == Len(pts) IN
    IF len < 4
    THEN <<>>
    ELSE LET a == pts[1]
             b == pts[2]
             c == pts[3]
             head == <<"M", toFixed2(a[1] * 100), ",", toFixed2(a[2] * 100),
                       " Q", toFixed2(b[1] * 100), ",", toFixed2(b[2] * 100),
                       " ", toFixed2(average(b[1], c[1])), ",",
                       toFixed2(average(b[2], c[2])), " T">>
             body == PathLoop(pts, 2, len - 1, head)
         IN IF isClosed THEN body \o <<"Z">> ELSE body

\* ------------------------------------------------------------- render loop
\* Mutant: the shapes are painted at their stored coordinates.
drawItem_noPan(item, coords) ==
    CASE item.kind = "rect" ->
           <<[op |-> "rectangle", x |-> item.x, y |-> item.y,
              width |-> item.width, height |-> item.height,
              options |-> item.options]>>
      [] item.kind = "circle" ->
           <<[op |-> "circle", x |-> item.x, y |-> item.y,
              diameter |-> item.diameter, options |-> item.options]>>
      [] item.kind = "line" ->
           <<[op |-> "line", x1 |-> item.x1, y1 |-> item.y1,
              x2 |-> item.x2, y2 |-> item.y2,
              options |-> item.options]>>
      [] item.kind = "pen" ->
           <<[op |-> "fill",
              stroke |-> [k \in 1..Len(item.path) |->
                            [x |-> item.path[k].x, y |-> item.path[k].y]],
              fillStyle |-> "black"]>>
      [] OTHER -> <<>>

\* Whiteboard.drawItem: the call one item makes on the canvas.
drawItem(item, coords) ==
    CASE item.kind = "rect" ->
           <<[op |-> "rectangle", x |-> item.x + coords.x, y |-> item.y + coords.y,
              width |-> item.width, height |-> item.height,
              options |-> item.options]>>
      [] item.kind = "circle" ->
           <<[op |-> "circle", x |-> item.x + coords.x, y |-> item.y + coords.y,
              diameter |-> item.diameter, options |-> item.options]>>
      [] item.kind = "line" ->
           <<[op |-> "line", x1 |-> item.x1 + coords.x, y1 |-> item.y1 + coords.y,
              x2 |-> item.x2 + coords.x, y2 |-> item.y2 + coords.y,
              options |-> item.options]>>
      [] item.kind = "pen" ->
           <<[op |-> "fill",
              stroke |-> [k \in 1..Len(item.path) |->
                            [x |-> item.path[k].x + coords.x,
                             y |-> item.path[k].y + coords.y]],
              fillStyle |-> "black"]>>
      [] OTHER -> <<>>

RECURSIVE drawItems(_, _)
drawItems(its, coords) ==
    IF its = <<>> THEN <<>>
    ELSE drawItem(Head(its), coords) \o drawItems(Tail(its), coords)

\* Mutant: the draft is painted first, below the committed shapes.
draw_draftFirst(its, drawing, coords) ==
    (IF drawing # NoDrawing THEN drawItem(drawing, coords) ELSE <<>>)
        \o drawItems(its, coords)

\* Whiteboard.draw: clear, replay the items, then the draft if there is one.
draw(its, drawing, coords) ==
    drawItems(its, coords)
        \o (IF drawing # NoDrawing THEN drawItem(drawing, coords) ELSE <<>>)

\* The canvas after one more run of draw().
render(its, drawing, coords) ==
    [ops |-> draw(its, drawing, coords), runs |-> canvas.runs + 1]

\* The canvas no draw() has painted on since the element was set up.
BlankCanvas == [ops |-> <<>>, runs |-> 0]

\* No rect item, no box.
NoItem == [kind |-> "none"]

NoBox == [x2 |-> 0, y2 |-> 0, width2 |-> 0, height2 |-> 0, called |-> FALSE]

\* --------------------------------------------------------- Whiteboard state
\* The element after construction and firstUpdated: the canvas exists (the
\* handlers' and draw's "no canvas" returns are never taken afterwards), no
\* tool is selected and the first draw() has cleared the canvas.
Init ==
    /\ mount = "whiteboard"
    /\ items = <<>>
    /\ canvasCoords = [x |-> 0, y |-> 0]
    /\ currentDrawing = NoDrawing
    /\ currentTool = "none"
    /\ canvas = BlankCanvas
    /\ gesture = NoGesture
    /\ points = <<>>
    /\ closed = TRUE
    /\ result = <<"uncalled">>
    /\ boxItem = NoItem
    /\ boundingRect = NoBox
    /\ events = 0

\* Mutant: without a tool, a pointer-down starts a move.
newDrawing_noneMoves(tool, x, y) ==
    CASE tool = "rect" ->
           [kind |-> "rect", x |-> x - canvasCoords.x, y |-> y - canvasCoords.y,
            width |-> 0, height |-> 0, options |-> EmptyOptions]
      [] tool = "circle" ->
           [kind |-> "circle", x |-> x - canvasCoords.x, y |-> y - canvasCoords.y,
            diameter |-> [factor |-> 2, radicand |-> 0], options |-> EmptyOptions]
      [] tool = "line" ->
           [kind |-> "line", x1 |-> x - canvasCoords.x, y1 |-> y - canvasCoords.y,
            x2 |-> x - canvasCoords.x, y2 |-> y - canvasCoords.y,
            options |-> EmptyOptions]
      [] tool = "pen" ->
           [kind |-> "pen",
            path |-> <<[x |-> x - canvasCoords.x, y |-> y - canvasCoords.y]>>,
            options |-> EmptyOptions]
      [] tool = "move" -> [kind |-> "move", x |-> x, y |-> y]
      [] OTHER -> [kind |-> "move", x |-> x, y |-> y]

\* The draft handleDrawingStart builds for the active tool.
newDrawing(tool, x, y) ==
    CASE tool = "rect" ->
           [kind |-> "rect", x |-> x - canvasCoords.x, y |-> y - canvasCoords.y,
            width |-> 0, height |-> 0, options |-> EmptyOptions]
      [] tool = "circle" ->
           [kind |-> "circle", x |-> x - canvasCoords.x, y |-> y - canvasCoords.y,
            diameter |-> [factor |-> 2, radicand |-> 0], options |-> EmptyOptions]
      [] tool = "line" ->
           [kind |-> "line", x1 |-> x - canvasCoords.x, y1 |-> y - canvasCoords.y,
            x2 |-> x - canvasCoords.x, y2 |-> y - canvasCoords.y,
            options |-> EmptyOptions]
      [] tool = "pen" ->
           [kind |-> "pen",
            path |-> <<[x |-> x - canvasCoords.x, y |-> y - canvasCoords.y]>>,
            options |-> EmptyOptions]
      [] tool = "move" -> [kind |-> "move", x |-> x, y |-> y]
      [] OTHER -> NoDrawing

\* Mutant: a pointer-down commits the draft it finds before replacing it.
handleDrawingStart_commitOld(x, y) ==
    /\ mount = "whiteboard"
    /\ items' = IF currentDrawing # NoDrawing /\ currentDrawing.kind # "move"
                THEN Append(items, currentDrawing)
                ELSE items
    /\ currentDrawing' = newDrawing(currentTool, x, y)
    /\ gesture' = IF currentDrawing' = NoDrawing
                  THEN NoGesture
                  ELSE [phase |-> "drawing", tool |-> currentTool,
                        p0 |-> [x |-> x, y |-> y], trail |-> <<>>,
                        pan0 |-> canvasCoords, items0 |-> items',
                        changed |-> FALSE]
    /\ UNCHANGED <<mount, canvasCoords, currentTool, canvas, callVars>>

handleDrawingStart(x, y) ==
    /\ mount = "whiteboard"
    /\ currentDrawing' = newDrawing(currentTool, x, y)
    /\ gesture' = IF currentDrawing' = NoDrawing
                  THEN NoGesture
                  ELSE [phase |-> "drawing", tool |-> currentTool,
                        p0 |-> [x |-> x, y |-> y], trail |-> <<>>,
                        pan0 |-> canvasCoords, items0 |-> items,
                        changed |-> FALSE]
    /\ UNCHANGED <<mount, items, canvasCoords, currentTool, canvas, callVars>>

\* Mutant: the rect's width and height forget the pan offset.
movedDrawing_noPan(d, x, y) ==
    CASE d.kind = "rect" ->
           [d EXCEPT !.width = x - d.x, !.height = y - d.y]
      [] d.kind = "circle" ->
           LET x2 == x - canvasCoords.x
               y2 == y - canvasCoords.y
               dx == x2 - d.x
               dy == y2 - d.y
           IN [d EXCEPT !.diameter = [factor |-> 2, radicand |-> dx * dx + dy * dy]]
      [] d.kind = "line" ->
           [d EXCEPT !.x2 = x - canvasCoords.x, !.y2 = y - canvasCoords.y]
      [] d.kind = "pen" ->
           [d EXCEPT !.path = Append(@, [x |-> x - canvasCoords.x,
                                         y |-> y - canvasCoords.y])]
      [] d.kind = "move" -> [d EXCEPT !.x = x, !.y = y]
      [] OTHER -> d

\* Mutant: the circle stores the radius, not the diameter.
movedDrawing_radius(d, x, y) ==
    CASE d.kind = "rect" ->
           [d EXCEPT !.width = x - d.x - canvasCoords.x,
                     !.height = y - d.y - canvasCoords.y]
      [] d.kind = "circle" ->
           LET x2 == x - canvasCoords.x
               y2 == y - canvasCoords.y
               dx == x2 - d.x
               dy == y2 - d.y
           IN [d EXCEPT !.diameter = [factor |-> 1, radicand |-> dx * dx + dy * dy]]
      [] d.kind = "line" ->
           [d EXCEPT !.x2 = x - canvasCoords.x, !.y2 = y - canvasCoords.y]
      [] d.kind = "pen" ->
           [d EXCEPT !.path = Append(@, [x |-> x - canvasCoords.x,
                                         y |-> y - canvasCoords.y])]
      [] d.kind = "move" -> [d EXCEPT !.x = x, !.y = y]
      [] OTHER -> d

\* Mutant: the pen keeps only its latest point after the first.
movedDrawing_penLatest(d, x, y) ==
    CASE d.kind = "rect" ->
           [d EXCEPT !.width = x - d.x - canvasCoords.x,
                     !.height = y - d.y - canvasCoords.y]
      [] d.kind = "circle" ->
           LET x2 == x - canvasCoords.x
               y2 == y - canvasCoords.y
               dx == x2 - d.x
               dy == y2 - d.y
           IN [d EXCEPT !.diameter = [factor |-> 2, radicand |-> dx * dx + dy * dy]]
      [] d.kind = "line" ->
           [d EXCEPT !.x2 = x - canvasCoords.x, !.y2 = y - canvasCoords.y]
      [] d.kind = "pen" ->
           [d EXCEPT !.path = <<Head(@), [x |-> x - canvasCoords.x,
                                          y |-> y - canvasCoords.y]>>]
      [] d.kind = "move" -> [d EXCEPT !.x = x, !.y = y]
      [] OTHER -> d

\* The draft after a pointer-move at (x, y).
movedDrawing(d, x, y) ==
    CASE d.kind = "rect" ->
           [d EXCEPT !.width = x - d.x - canvasCoords.x,
                     !.height = y - d.y - canvasCoords.y]
      [] d.kind = "circle" ->
           LET x2 == x - canvasCoords.x
               y2 == y - canvasCoords.y
               dx == x2 - d.x
               dy == y2 - d.y
           IN [d EXCEPT !.diameter = [factor |-> 2, radicand |-> dx * dx + dy * dy]]
      [] d.kind = "line" ->
           [d EXCEPT !.x2 = x - canvasCoords.x, !.y2 = y - canvasCoords.y]
      [] d.kind = "pen" ->
           [d EXCEPT !.path = Append(@, [x |-> x - canvasCoords.x,
                                         y |-> y - canvasCoords.y])]
      [] d.kind = "move" -> [d EXCEPT !.x = x, !.y = y]
      [] OTHER -> d

\* Mutant: the pan follows the active tool, not the draft's kind.
movedCoords_byTool(d, x, y) ==
    IF currentTool = "move" /\ "x" \in DOMAIN d
    THEN [x |-> canvasCoords.x + (x - d.x), y |-> canvasCoords.y + (y - d.y)]
    ELSE canvasCoords

\* Mutant: the pan offset moves against the pointer.
movedCoords_against(d, x, y) ==
    IF d.kind = "move"
    THEN [x |-> canvasCoords.x - (x - d.x), y |-> canvasCoords.y - (y - d.y)]
    ELSE canvasCoords

\* The pan offset after a pointer-move at (x, y).
movedCoords(d, x, y) ==
    IF d.kind = "move"
    THEN [x |-> canvasCoords.x + (x - d.x), y |-> canvasCoords.y + (y - d.y)]
    ELSE canvasCoords

handleDrawingMove(x, y) ==
    /\ mount = "whiteboard"
    /\ IF currentDrawing = NoDrawing
       THEN UNCHANGED state
       ELSE /\ canvasCoords' = movedCoords(currentDrawing, x, y)
            /\ currentDrawing' = movedDrawing(currentDrawing, x, y)
            /\ canvas' = render(items, currentDrawing', canvasCoords')
            /\ gesture' = [gesture EXCEPT !.trail = Append(@, [x |-> x, y |-> y])]
            /\ UNCHANGED <<mount, items, currentTool, callVars>>

\* Mutant: the pointer-up appends the draft whatever its kind.
endItems_always(d) == Append(items, d)

\* Mutant: the pointer-up replaces the list by the draft.
endItems_replace(d) == IF d.kind # "move" THEN <<d>> ELSE items

\* Mutant: a shape no pointer-move has sized is not committed.
endItems_skipUnmoved(d) ==
    IF d.kind # "move" /\ gesture.trail # <<>> THEN Append(items, d) ELSE items

\* The item list after a pointer-up with draft d.
endItems(d) == IF d.kind # "move" THEN Append(items, d) ELSE items

\* Mutant: a move draft survives the pointer-up.
endDrawing_keepMove(d) == IF d.kind = "move" THEN d ELSE NoDrawing

\* The draft after a pointer-up with draft d.
endDrawing(d) == NoDrawing

handleDrawingEnd ==
    /\ mount = "whiteboard"
    /\ IF currentDrawing = NoDrawing
       THEN UNCHANGED state
       ELSE /\ items' = endItems(currentDrawing)
            /\ currentDrawing' = endDrawing(currentDrawing)
            /\ canvas' = render(items', currentDrawing', canvasCoords)
            /\ gesture' = [gesture EXCEPT !.phase = "done"]
            /\ UNCHANGED <<mount, canvasCoords, currentTool, callVars>>

handleMouseDown == Deliver /\ \E p \in Pts : handleDrawingStart(p.x, p.y)

handleMouseMove == Deliver /\ \E p \in Pts : handleDrawingMove(p.x, p.y)

handleMouseUp == Deliver /\ handleDrawingEnd

\* touches: the event's touch list, already relative to the canvas.
handleTouchStart ==
    Deliver /\ \E touches \in {<<>>} \cup {<<p>> : p \in Pts} :
        IF Len(touches) < 1
        THEN mount = "whiteboard" /\ UNCHANGED state
        ELSE handleDrawingStart(touches[1].x, touches[1].y)

handleTouchMove ==
    Deliver /\ \E touches \in {<<>>} \cup {<<p>> : p \in Pts} :
        IF Len(touches) < 1
        THEN mount = "whiteboard" /\ UNCHANGED state
        ELSE handleDrawingMove(touches[1].x, touches[1].y)

handleTouchEnd == Deliver /\ handleDrawingEnd

\* Mutant: a touch-cancel commits the draft as a pointer-up does.
handleTouchCancel_commit ==
    /\ Deliver
    /\ mount = "whiteboard"
    /\ IF currentDrawing = NoDrawing
       THEN UNCHANGED state
       ELSE /\ items' = endItems(currentDrawing)
            /\ currentDrawing' = NoDrawing
            /\ canvas' = render(items', currentDrawing', canvasCoords)
            /\ gesture' = [gesture EXCEPT !.phase = "cancelled"]
            /\ UNCHANGED <<mount, canvasCoords, currentTool, callVars>>

handleTouchCancel ==
    /\ Deliver
    /\ mount = "whiteboard"
    /\ IF currentDrawing = NoDrawing
       THEN UNCHANGED state
       ELSE /\ currentDrawing' = NoDrawing
            /\ canvas' = render(items, currentDrawing', canvasCoords)
            /\ gesture' = [gesture EXCEPT !.phase = "cancelled"]
            /\ UNCHANGED <<mount, items, canvasCoords, currentTool, callVars>>

\* The toolbar's tools--active class follows currentTool and is not kept.
handleToolChange ==
    \E tool \in Tools :
        /\ Deliver
        /\ mount = "whiteboard"
        /\ currentTool' = tool
        /\ gesture' = IF currentDrawing # NoDrawing /\ tool # currentTool
                      THEN [gesture EXCEPT !.changed = TRUE]
                      ELSE gesture
        /\ UNCHANGED <<mount, items, canvasCoords, currentDrawing, canvas,
                       callVars>>

handleResize ==
    /\ Deliver
    /\ mount = "whiteboard"
    /\ canvas' = render(items, currentDrawing, canvasCoords)
    /\ UNCHANGED <<mount, items, canvasCoords, currentDrawing, currentTool,
                   gesture, callVars>>

handleVisibilityChange ==
    /\ Deliver
    /\ mount = "whiteboard"
    /\ canvas' = render(items, currentDrawing, canvasCoords)
    /\ UNCHANGED <<mount, items, canvasCoords, currentDrawing, currentTool,
                   gesture, callVars>>

Next ==
    \/ handleMouseDown
    \/ handleMouseMove
    \/ handleMouseUp
    \/ handleTouchStart
    \/ handleTouchMove
    \/ handleTouchEnd
    \/ handleTouchCancel
    \/ handleToolChange
    \/ handleResize
    \/ handleVisibilityChange

Spec == Init /\ [][Next]_vars

\* ------------------------------------------------- the rect tool (rect.ts)
\* The tool's handlers reach the host element through
\* getSimpleWhiteboardInstance(); mount = "orphan" is a tool without a host.
\* The host's draft, item list and pan offset are the variables
\* currentDrawing, items and canvasCoords.
getSimpleWhiteboardInstance == IF mount = "tool" THEN "host" ELSE "null"

getToolName == "rect"

getCurrentDrawing == currentDrawing

getCanvasCoords == canvasCoords

coordsFromCanvasCoords(x, y) ==
    [x |-> x - canvasCoords.x, y |-> y - canvasCoords.y]

\* The tool's private fields stroke, strokeWidth and fill.
toolOptions == [stroke |-> "#000000", strokeWidth |-> 2, fill |-> "transparent"]

\* setCurrentDrawing(item) on the host.
setCurrentDrawing(item) == currentDrawing' = item

\* addItem(item, true) on the host.
addItem(item) == items' = Append(items, item)

\* Drafts another tool of the host may have left behind.
ForeignDrawings == {[kind |-> k, id |-> 0] : k \in {"circle", "line", "pen"}}

Pans == {[x |-> i, y |-> 2 * i] : i \in -MaxCoord..MaxCoord}

ToolInit ==
    /\ mount \in {"tool", "orphan"}
    /\ items = <<>>
    /\ canvasCoords \in Pans
    /\ currentDrawing \in {NoDrawing} \cup ForeignDrawings
    /\ currentTool = "none"
    /\ canvas = BlankCanvas
    /\ gesture = NoGesture
    /\ points = <<>>
    /\ closed = TRUE
    /\ result = <<"uncalled">>
    /\ boxItem = NoItem
    /\ boundingRect = NoBox
    /\ events = 0

toolFrame == <<mount, currentTool, canvas, gesture, callVars>>

\* The item Rect.handleDrawingStart builds.
rectItem(itemId, x, y) ==
    LET c == coordsFromCanvasCoords(x, y)
    IN [kind |-> getToolName, id |-> itemId, x |-> c.x, y |-> c.y,
        width |-> 0, height |-> 0, options |-> toolOptions]

Rect_handleDrawingStart ==
    \E p \in Pts, itemId \in 1..MaxId :
        /\ Deliver
        /\ mount \in {"tool", "orphan"}
        /\ IF getSimpleWhiteboardInstance = "null"
           THEN UNCHANGED state
           ELSE /\ setCurrentDrawing(rectItem(itemId, p.x, p.y))
                /\ UNCHANGED <<items, canvasCoords, toolFrame>>

\* Mutant: the width and the height forget the pan offset.
rectMoved_noPan(d, x, y) ==
    [d EXCEPT !.width = x - d.x, !.height = y - d.y]

\* The draft Rect.handleDrawingMove hands to setCurrentDrawing.
rectMoved(d, x, y) ==
    LET c == getCanvasCoords
    IN [d EXCEPT !.width = x - d.x - c.x, !.height = y - d.y - c.y]

Rect_handleDrawingMove ==
    \E p \in Pts :
        /\ Deliver
        /\ mount \in {"tool", "orphan"}
        /\ IF getSimpleWhiteboardInstance = "null"
           THEN UNCHANGED state
           ELSE IF getCurrentDrawing = NoDrawing
           THEN UNCHANGED state
           ELSE IF getCurrentDrawing.kind # getToolName
           THEN UNCHANGED state
           ELSE /\ setCurrentDrawing(rectMoved(getCurrentDrawing, p.x, p.y))
                /\ UNCHANGED <<items, canvasCoords, toolFrame>>

\* Mutant: the end handler does not test the draft's kind.
Rect_handleDrawingEnd_noKindCheck ==
    /\ Deliver
    /\ mount \in {"tool", "orphan"}
    /\ IF getSimpleWhiteboardInstance = "null"
       THEN UNCHANGED state
       ELSE IF getCurrentDrawing = NoDrawing
       THEN UNCHANGED state
       ELSE /\ addItem(getCurrentDrawing)
            /\ setCurrentDrawing(NoDrawing)
            /\ UNCHANGED <<canvasCoords, toolFrame>>

Rect_handleDrawingEnd ==
    /\ Deliver
    /\ mount \in {"tool", "orphan"}
    /\ IF getSimpleWhiteboardInstance = "null"
       THEN UNCHANGED state
       ELSE IF getCurrentDrawing = NoDrawing
       THEN UNCHANGED state
       ELSE IF getCurrentDrawing.kind # getToolName
       THEN UNCHANGED state
       ELSE /\ addItem(getCurrentDrawing)
            /\ setCurrentDrawing(NoDrawing)
            /\ UNCHANGED <<canvasCoords, toolFrame>>

ToolNext ==
    \/ Rect_handleDrawingStart
    \/ Rect_handleDrawingMove
    \/ Rect_handleDrawingEnd

ToolSpec == ToolInit /\ [][ToolNext]_vars

\* Both elements: the whiteboard of whiteboard.ts and the rect tool.
AllInit == Init \/ ToolInit

AllNext == Next \/ ToolNext

AllSpec == AllInit /\ [][AllNext]_vars

\* ------------------------------------------- getSvgPathFromStroke, applied
\* Outline points: pairs [x, y] as perfect-freehand returns them.
OutlinePts == {<<i, 2 * i>> : i \in 0..MaxCoord}

RECURSIVE SeqsUpTo(_, _)
SeqsUpTo(S, n) ==
    IF n = 0 THEN {<<>>}
    ELSE LET shorter == SeqsUpTo(S, n - 1)
         IN shorter \cup {Append(q, e) : q \in {r \in shorter : Len(r) = n - 1}, e \in S}

PathInit ==
    /\ mount = "function"
    /\ items = <<>>
    /\ canvasCoords = [x |-> 0, y |-> 0]
    /\ currentDrawing = NoDrawing
    /\ currentTool = "none"
    /\ canvas = BlankCanvas
    /\ gesture = NoGesture
    /\ points \in SeqsUpTo(OutlinePts, MaxLen)
    /\ closed \in BOOLEAN
    /\ result = <<"uncalled">>
    /\ boxItem = NoItem
    /\ boundingRect = NoBox
    /\ events = 0

CallGetSvgPathFromStroke ==
    /\ Deliver
    /\ mount = "function"
    /\ result' = getSvgPathFromStroke(points, closed)
    /\ UNCHANGED <<mount, items, canvasCoords, currentDrawing, currentTool,
                   canvas, gesture, points, closed, boxVars>>

PathNext == CallGetSvgPathFromStroke

PathSpec == PathInit /\ [][PathNext]_vars

\* ------------------------------------------------ getBoundingRect, applied
\* Rect.getBoundingRect(item).  The box is carried in half units (x2 is twice
\* the x of the returned box, and so on) so that half a stroke width is an
\* integer.  options.strokeWidth || 1: a missing or zero width counts as 1.
getBoundingRect(it) ==
    LET strokeWidth == IF "strokeWidth" \in DOMAIN it.options
                          /\ it.options.strokeWidth # 0
                       THEN it.options.strokeWidth
                       ELSE 1
    IN [x2 |-> 2 * it.x - strokeWidth,
        y2 |-> 2 * it.y - strokeWidth,
        width2 |-> 2 * (it.width + strokeWidth),
        height2 |-> 2 * (it.height + strokeWidth),
        called |-> TRUE]

\* The options of the rect items handed to getBoundingRect: the tool's own,
\* the thinnest stroke of the width slider, a zero width, no width at all.
BoxOptions ==
    {toolOptions,
     [toolOptions EXCEPT !.strokeWidth = 1],
     [toolOptions EXCEPT !.strokeWidth = 0],
     [stroke |-> "#000000", fill |-> "transparent"]}

\* Rect items as the tool's gestures leave them: the width and the height
\* are negative when the pointer was dragged to the left or upwards.
RectItems ==
    {[kind |-> "rect", id |-> 1, x |-> c.x, y |-> c.y,
      width |-> w, height |-> h, options |-> o] :
        c \in Pans, w \in -MaxCoord..MaxCoord, h \in -MaxCoord..MaxCoord,
        o \in BoxOptions}

BoxInit ==
    /\ mount = "getBoundingRect"
    /\ items = <<>>
    /\ canvasCoords = [x |-> 0, y |-> 0]
    /\ currentDrawing = NoDrawing
    /\ currentTool = "none"
    /\ canvas = BlankCanvas
    /\ gesture = NoGesture
    /\ points = <<>>
    /\ closed = TRUE
    /\ result = <<"uncalled">>
    /\ boxItem \in RectItems
    /\ boundingRect = NoBox
    /\ events = 0

CallGetBoundingRect ==
    /\ Deliver
    /\ mount = "getBoundingRect"
    /\ boundingRect' = getBoundingRect(boxItem)
    /\ UNCHANGED <<mount, items, canvasCoords, currentDrawing, currentTool,
                   canvas, gesture, strokeVars, boxItem>>

BoxNext == CallGetBoundingRect

BoxSpec == BoxInit /\ [][BoxNext]_vars

\* ------------------------------------------------------------------ claims
Last(q) == q[Len(q)]

IsPrefix(q, r) == Len(q) <= Len(r) /\ \A k \in 1..Len(q) : q[k] = r[k]

\* The last pointer position of the gesture: the last pointer-move, or the
\* pointer-down when there was none.
LastPos(g) == IF g.trail = <<>> THEN g.p0 ELSE Last(g.trail)

\* A pointer-up has just ended a gesture that had a draft.
PointerUpStep == gesture.phase = "drawing" /\ gesture'.phase = "done"

\* C1: every shape a pointer-up appends to the committed list has the kind
\* of the tool that is active at that pointer-up.
C1_CommittedKindIsActiveTool ==
    [][Len(items') > Len(items) => Last(items').kind = currentTool']_vars

\* C2: when the tool was changed to another one between the pointer-down
\* that created a draft and the pointer-up, that draft is not in the
\* committed list after the pointer-up and no draft remains.
C2_ToolChangeDiscardsDraft ==
    (gesture.phase = "done" /\ gesture.changed)
        => (items = gesture.items0 /\ currentDrawing = NoDrawing)

\* C3: whenever a draft exists, its kind is the active tool.
C3_DraftKindIsActiveTool ==
    currentDrawing # NoDrawing => currentDrawing.kind = currentTool

\* C4: a completed rect or line gesture from (x0,y0), last at (xn,yn), under
\* pan offset (px,py), commits rect (x0-px, y0-py, xn-x0, yn-y0) or line
\* (x0-px, y0-py, xn-px, yn-py); the intermediate pointer-moves do not count.
C4_RectLineGeometry ==
    LET g == gesture
        n == LastPos(g)
    IN (g.phase = "done" /\ g.tool \in {"rect", "line"})
        => /\ items # <<>>
           /\ g.tool = "rect" =>
                Last(items) = [kind |-> "rect",
                               x |-> g.p0.x - g.pan0.x, y |-> g.p0.y - g.pan0.y,
                               width |-> n.x - g.p0.x, height |-> n.y - g.p0.y,
                               options |-> EmptyOptions]
           /\ g.tool = "line" =>
                Last(items) = [kind |-> "line",
                               x1 |-> g.p0.x - g.pan0.x, y1 |-> g.p0.y - g.pan0.y,
                               x2 |-> n.x - g.pan0.x, y2 |-> n.y - g.pan0.y,
                               options |-> EmptyOptions]

\* A rect gesture under a non-zero pan offset, with two pointer-moves at
\* different positions, the last one away from the start, has been committed.
C4_Witness ==
    /\ gesture.phase = "done"
    /\ gesture.tool = "rect"
    /\ gesture.pan0.x # 0
    /\ Len(gesture.trail) = 2
    /\ gesture.trail[1] # gesture.trail[2]
    /\ gesture.trail[2] # gesture.p0
    /\ Last(items).width # 0

\* C5: during and after a gesture whose pointer-down happened with the move
\* tool active, the committed list is the list before that pointer-down.
C5_MoveNeverAppends ==
    (gesture.tool = "move" /\ gesture.phase # "idle") => items = gesture.items0

\* A move gesture that panned has ended by a pointer-up, on a non-empty list.
C5_Witness ==
    /\ gesture.tool = "move"
    /\ gesture.phase = "done"
    /\ gesture.trail # <<>>
    /\ canvasCoords # gesture.pan0
    /\ items # <<>>

\* C6: every step keeps the committed list as a prefix of the new list; the
\* list grows only on a pointer-up, by exactly one shape.
C6_AppendOnly ==
    [][/\ IsPrefix(items, items')
       /\ Len(items') <= Len(items) + 1
       /\ Len(items') > Len(items) => PointerUpStep]_vars

\* A pointer-up has appended a second shape to a list that held one.
C6_Witness ==
    /\ Len(items) = 2
    /\ gesture.phase = "done"
    /\ Len(gesture.items0) = 1
    /\ items[1] # items[2]

whiteboardState == <<items, canvasCoords, currentTool, currentDrawing, canvas>>

\* C8: without a draft, no pointer-move, pointer-up or touch-cancel can change
\* the list, the pan offset, the tool, the draft or the canvas; with a draft of
\* a kind other than "rect" (or none), the rect tool's move and end handlers
\* can change none of them either.
C8_NoDraftNoOp ==
    /\ (mount = "whiteboard" /\ currentDrawing = NoDrawing) =>
         ~ ENABLED ((\/ handleMouseMove
                     \/ handleTouchMove
                     \/ handleMouseUp
                     \/ handleTouchEnd
                     \/ handleTouchCancel) /\ whiteboardState' # whiteboardState)
    /\ (mount \in {"tool", "orphan"} /\ currentDrawing.kind # "rect") =>
         ~ ENABLED ((\/ Rect_handleDrawingMove
                     \/ Rect_handleDrawingEnd) /\ whiteboardState' # whiteboardState)

\* A rect tool with a host whose draft belongs to another tool has handled
\* events (move or end: a start would have replaced the draft) and can
\* handle more.
C8_Witness ==
    /\ mount = "tool"
    /\ currentDrawing \in ForeignDrawings
    /\ events > 1
    /\ ENABLED Rect_handleDrawingEnd
    /\ ENABLED Rect_handleDrawingMove

\* C9: a completed circle gesture from (x0,y0), last at (xn,yn), under pan
\* offset (px,py), commits a circle centred (x0-px, y0-py) whose diameter d
\* has d*d = 4*((xn-x0)^2 + (yn-y0)^2).
C9_CircleGeometry ==
    LET g == gesture
        n == LastPos(g)
    IN (g.phase = "done" /\ g.tool = "circle")
        => /\ items # <<>>
           /\ Last(items).kind = "circle"
           /\ Last(items).x = g.p0.x - g.pan0.x
           /\ Last(items).y = g.p0.y - g.pan0.y
           /\ LET d == Last(items).diameter
              IN d.factor * d.factor * d.radicand
                    = 4 * ((n.x - g.p0.x) * (n.x - g.p0.x)
                            + (n.y - g.p0.y) * (n.y - g.p0.y))

\* A circle of non-zero diameter has been committed under a non-zero pan.
C9_Witness ==
    /\ gesture.phase = "done"
    /\ gesture.tool = "circle"
    /\ gesture.pan0.x # 0
    /\ LastPos(gesture) # gesture.p0
    /\ Last(items).diameter.radicand > 0

\* C10: getSvgPathFromStroke returns the empty path for 0 to 3 points, and for
\* 4 or more a non-empty path that starts with "M" and, when closed, ends
\* with "Z".
C10_ShortStrokeEmptyPath ==
    result # <<"uncalled">> =>
        /\ Len(points) < 4 => result = <<>>
        /\ Len(points) >= 4 =>
             /\ result # <<>>
             /\ Head(result) = "M"
             /\ closed => Last(result) = "Z"

\* The function has returned the empty path for a list of three points.
C10_Witness ==
    /\ Len(points) = 3
    /\ result = <<>>

\* The ends of the interval from a to a + len, whatever the sign of len.
Lo(a, len) == IF len < 0 THEN a + len ELSE a

Hi(a, len) == IF len < 0 THEN a ELSE a + len

\* The stroke width a rect item is drawn with: options.strokeWidth, or the
\* renderer's default of 1 when the options have none.
StrokeWidthOf(it) ==
    IF "strokeWidth" \in DOMAIN it.options THEN it.options.strokeWidth ELSE 1

\* C11: for every rect item, negative width or height and a missing or zero
\* strokeWidth included, the box getBoundingRect returns covers the
\* rectangle's extent padded by half the stroke width on every side.
C11_BoundingRectCoversExtent ==
    boundingRect.called =>
        LET b == boundingRect
            sw == StrokeWidthOf(boxItem)
        IN /\ Lo(b.x2, b.width2) <= 2 * Lo(boxItem.x, boxItem.width) - sw
           /\ Hi(b.x2, b.width2) >= 2 * Hi(boxItem.x, boxItem.width) + sw
           /\ Lo(b.y2, b.height2) <= 2 * Lo(boxItem.y, boxItem.height) - sw
           /\ Hi(b.y2, b.height2) >= 2 * Hi(boxItem.y, boxItem.height) + sw

\* The canvas calls of one replay: one call per committed shape, in list
\* order, then the call of the draft if it is a shape (a move draft paints
\* nothing).
Replay(its, d, c) ==
    LET shapes == IF d = NoDrawing \/ d.kind = "move" THEN its ELSE Append(its, d)
    IN [k \in 1..Len(shapes) |-> drawItem(shapes[k], c)[1]]

\* The step ran the render loop exactly once, on the state it leaves.
OneRender ==
    /\ canvas'.runs = canvas.runs + 1
    /\ canvas'.ops = Replay(items', currentDrawing', canvasCoords')

\* C12: each handleDrawingMove event, in any state, is followed by one run
\* of the render loop, replaying the committed shapes in list order and then
\* the draft if one exists.
C12_RedrawAfterEveryMove ==
    [][handleMouseMove => OneRender]_vars

\* C12, amended: a handleDrawingMove event that finds a draft is followed by
\* one run of the render loop, replaying the committed shapes in list order
\* and then the draft; one that finds no draft returns before the render
\* loop and leaves the canvas as it was.
C12_RedrawAfterMoveWithDraft ==
    [][handleMouseMove =>
         IF currentDrawing # NoDrawing THEN OneRender ELSE canvas' = canvas]_vars

\* A pointer-move has redrawn a committed shape and, after it, the draft.
C12_Witness ==
    /\ gesture.phase = "drawing"
    /\ gesture.trail # <<>>
    /\ items # <<>>
    /\ currentDrawing.kind # "move"
    /\ Len(canvas.ops) = Len(items) + 1
    /\ canvas.ops = Replay(items, currentDrawing, canvasCoords)

\* C13: during and after a move gesture from (x0,y0) whose last pointer
\* position is (xn,yn), the pan offset is the offset at the pointer-down plus
\* (xn - x0, yn - y0); with no pointer-move it is the offset at the
\* pointer-down.
C13_PanIsTotalDisplacement ==
    LET g == gesture
        n == LastPos(g)
    IN (g.tool = "move" /\ g.phase # "idle")
        => /\ canvasCoords = [x |-> g.pan0.x + (n.x - g.p0.x),
                              y |-> g.pan0.y + (n.y - g.p0.y)]
           /\ g.trail = <<>> => canvasCoords = g.pan0

\* A move gesture that started under a non-zero pan offset, away from the
\* origin, has ended after two pointer-moves, the last to another position
\* than the start.
C13_Witness ==
    /\ gesture.tool = "move"
    /\ gesture.phase = "done"
    /\ gesture.pan0.x # 0
    /\ gesture.p0.x # 0
    /\ Len(gesture.trail) = 2
    /\ gesture.trail[1] # gesture.trail[2]
    /\ canvasCoords # gesture.pan0

\* The coordinate pairs of a shape or of a canvas call, in order.
Anchors(r) ==
    CASE "x1" \in DOMAIN r -> <<[x |-> r.x1, y |-> r.y1], [x |-> r.x2, y |-> r.y2]>>
      [] "path" \in DOMAIN r -> r.path
      [] "stroke" \in DOMAIN r -> r.stroke
      [] OTHER -> <<[x |-> r.x, y |-> r.y]>>

Shift(q, c) == [k \in 1..Len(q) |-> [x |-> q[k].x + c.x, y |-> q[k].y + c.y]]

\* The pointer positions a gesture's shape records: the pointer-down alone
\* (rect, circle), the pointer-down and the last position (line), the
\* pointer-down and every pointer-move (pen).
Recorded(g) ==
    CASE g.tool = "line" -> <<g.p0, LastPos(g)>>
      [] g.tool = "pen" -> <<g.p0>> \o g.trail
      [] OTHER -> <<g.p0>>

\* C14: the coordinates a gesture stores, plus the pan offset in force
\* during the gesture, are the pointer positions of the recording events;
\* every committed shape is painted at its stored coordinates plus the
\* current pan offset, so a later pan by (dx,dy) displaces its rendering by
\* (dx,dy), and the pan leaves the stored coordinates as they were.
C14_StoredPlusPanIsPointer ==
    LET g == gesture
    IN /\ (g.phase = "drawing" /\ g.tool # "move") =>
             /\ canvasCoords = g.pan0
             /\ Shift(Anchors(currentDrawing), g.pan0) = Recorded(g)
       /\ (g.phase = "done" /\ g.tool # "move") =>
             Shift(Anchors(Last(items)), g.pan0) = Recorded(g)
       /\ Len(canvas.ops) >= Len(items)
       /\ \A k \in 1..Len(items) :
             Anchors(canvas.ops[k]) = Shift(Anchors(items[k]), canvasCoords)
       /\ (g.phase # "idle" /\ g.tool = "move") => items = g.items0

\* A pen stroke of two points was committed, and a later move gesture has
\* panned: the stroke is painted away from its stored coordinates.
C14_Witness ==
    /\ gesture.tool = "move"
    /\ gesture.phase = "drawing"
    /\ canvasCoords # gesture.pan0
    /\ items # <<>>
    /\ items[1].kind = "pen"
    /\ Len(items[1].path) = 2
    /\ Anchors(canvas.ops[1]) # Anchors(items[1])

\* C15: a completed pen gesture with k pointer-moves commits a pen shape of
\* exactly k + 1 points: the pointer-down minus the pan offset, then the
\* i-th pointer-move minus the pan offset, in event order.
C15_PenPointsInEventOrder ==
    LET g == gesture
    IN (g.phase = "done" /\ g.tool = "pen")
        => /\ Len(items) = Len(g.items0) + 1
           /\ Last(items).kind = "pen"
           /\ Len(Last(items).path) = Len(g.trail) + 1
           /\ Last(items).path[1] = [x |-> g.p0.x - g.pan0.x,
                                     y |-> g.p0.y - g.pan0.y]
           /\ \A i \in 1..Len(g.trail) :
                 Last(items).path[i + 1] = [x |-> g.trail[i].x - g.pan0.x,
                                           y |-> g.trail[i].y - g.pan0.y]

\* A pen gesture with two pointer-moves at different positions has been
\* committed under a non-zero pan offset.
C15_Witness ==
    /\ gesture.phase = "done"
    /\ gesture.tool = "pen"
    /\ gesture.pan0.x # 0
    /\ Len(gesture.trail) = 2
    /\ gesture.trail[1] # gesture.trail[2]
    /\ Len(Last(items).path) = 3

\* C16: the rect tool's handleDrawingMove, run with a rect draft, replaces
\* the draft by a record with the same id, kind, x, y and options whose width
\* is pointer x - draft x - pan x and whose height is pointer y - draft y -
\* pan y, and leaves the committed list alone; its handleDrawingEnd appends
\* exactly that draft to the list, once, and clears the draft.
C16_RectToolMoveAndEnd ==
    [][(mount = "tool" /\ currentDrawing.kind = "rect") =>
         /\ Rect_handleDrawingMove =>
              /\ items' = items
              /\ \E p \in Pts :
                    currentDrawing' =
                        [kind |-> "rect", id |-> currentDrawing.id,
                         x |-> currentDrawing.x, y |-> currentDrawing.y,
                         width |-> p.x - currentDrawing.x - canvasCoords.x,
                         height |-> p.y - currentDrawing.y - canvasCoords.y,
                         options |-> currentDrawing.options]
         /\ Rect_handleDrawingEnd =>
              /\ items' = Append(items, currentDrawing)
              /\ currentDrawing' = NoDrawing]_vars

\* The rect tool has committed, under a non-zero pan offset, a second
\* rectangle of non-zero width after pointer-moves.
C16_Witness ==
    /\ mount = "tool"
    /\ canvasCoords.x # 0
    /\ Len(items) = 2
    /\ Last(items).kind = "rect"
    /\ Last(items).width # 0
    /\ currentDrawing = NoDrawing

\* The draft a pointer-down at p leaves for a tool, under pan offset c: a
\* shape of the tool's kind with no extent, or the pointer position for move.
IsFresh(d, tool, p, c) ==
    /\ d.kind = tool
    /\ tool \in Tools
    /\ Anchors(d) = IF tool = "move" THEN <<p>>
                    ELSE IF tool = "line"
                    THEN <<[x |-> p.x - c.x, y |-> p.y - c.y],
                           [x |-> p.x - c.x, y |-> p.y - c.y]>>
                    ELSE <<[x |-> p.x - c.x, y |-> p.y - c.y]>>
    /\ tool = "rect" => d.width = 0 /\ d.height = 0
    /\ tool = "circle" => d.diameter.radicand = 0

\* C17: there is one draft at most (one field holds it); a pointer-down that
\* finds a draft drops it without appending it to the list, and after any
\* pointer-down the draft is a fresh record of the active tool's kind, or
\* absent when no tool is active.
C17_PointerDownReplacesDraft ==
    [][handleMouseDown =>
         /\ items' = items
         /\ \/ currentTool = "none" /\ currentDrawing' = NoDrawing
            \/ \E p \in Pts : IsFresh(currentDrawing', currentTool, p, canvasCoords)]_vars

\* A pointer-down has replaced the rect draft of an unfinished gesture: the
\* canvas still shows that rect after the committed shape, while the draft
\* is a circle that no pointer-move has touched.
C17_Witness ==
    /\ gesture.phase = "drawing"
    /\ gesture.trail = <<>>
    /\ currentDrawing.kind = "circle"
    /\ items # <<>>
    /\ items = gesture.items0
    /\ Len(canvas.ops) = Len(items) + 1
    /\ Last(canvas.ops).op = "rectangle"

\* C18: while the active tool is the initial "none", whatever pointer-downs,
\* pointer-moves, pointer-ups and touch-cancels were delivered, there is no
\* draft, the committed list is the empty initial list and the pan offset is
\* the initial (0,0).
C18_NoToolNoEffect ==
    currentTool = "none" =>
        /\ currentDrawing = NoDrawing
        /\ items = <<>>
        /\ canvasCoords = [x |-> 0, y |-> 0]

\* Four events have been delivered to the whiteboard while no tool was
\* selected and none of them painted: they were pointer and touch events
\* (a resize or a visibility change paints, a tool change selects a tool).
C18_Witness ==
    /\ mount = "whiteboard"
    /\ currentTool = "none"
    /\ events = 4
    /\ canvas.runs = 0

\* C19: after a touch-cancel during a gesture there is no draft and the
\* committed list is exactly the list before the gesture's pointer-down; the
\* pan offset is the one the gesture's pointer-moves had reached (for a move
\* gesture, the offset at the pointer-down plus the displacement so far).
C19_TouchCancelDiscardsDraft ==
    LET g == gesture
        n == LastPos(g)
    IN g.phase = "cancelled"
        => /\ currentDrawing = NoDrawing
           /\ items = g.items0
           /\ canvasCoords = IF g.tool = "move"
                             THEN [x |-> g.pan0.x + (n.x - g.p0.x),
                                   y |-> g.pan0.y + (n.y - g.p0.y)]
                             ELSE g.pan0

\* A move gesture that had panned over a committed shape was cancelled.
C19_Witness ==
    /\ gesture.phase = "cancelled"
    /\ gesture.tool = "move"
    /\ gesture.trail # <<>>
    /\ canvasCoords # gesture.pan0
    /\ items # <<>>

\* C20: a pointer-down followed by a pointer-up with no pointer-move between
\* them, with the rect, circle, line or pen tool, appends one degenerate
\* shape to the list: a rect of width 0 and height 0, a circle of diameter
\* 0, a line whose endpoints are equal, a pen stroke of a single point.
C20_ClickCommitsDegenerateShape ==
    LET g == gesture
    IN (g.phase = "done" /\ g.trail = <<>> /\ g.tool # "move")
        => /\ Len(items) = Len(g.items0) + 1
           /\ LET s == Last(items)
              IN /\ items = Append(g.items0, s)
                 /\ s.kind = g.tool
                 /\ s.kind = "rect" => s.width = 0 /\ s.height = 0
                 /\ s.kind = "circle" => s.diameter.factor * s.diameter.radicand = 0
                 /\ s.kind = "line" => s.x1 = s.x2 /\ s.y1 = s.y2
                 /\ s.kind = "pen" => Len(s.path) = 1

\* Clicks without a pointer-move have committed a degenerate line after a
\* degenerate circle.
C20_Witness ==
    /\ gesture.phase = "done"
    /\ gesture.trail = <<>>
    /\ gesture.tool = "line"
    /\ Len(items) = 2
    /\ items[1].kind = "circle"
    /\ items[1].diameter.radicand = 0
    /\ items[2].x1 = items[2].x2

\* C21: the pan offset changes only in a pointer-move handled while the
\* draft is of kind "move"; every other step (pointer-down, pointer-up,
\* touch-cancel, tool change, resize, a pointer-move with a rect, circle, line
\* or pen draft or with none) leaves it unchanged, also when the active tool
\* was switched to "move" after the draft was created.
C21_PanChangesOnlyInMoveDraft ==
    [][canvasCoords' # canvasCoords =>
         /\ currentDrawing.kind = "move"
         /\ handleMouseMove]_vars

\* After an earlier pan, a rect draft was created, the active tool was
\* switched to "move", and a pointer-move away from the start was handled:
\* the pan offset is still the one of the pointer-down.
C21_Witness ==
    /\ gesture.phase = "drawing"
    /\ gesture.tool = "rect"
    /\ currentDrawing.kind = "rect"
    /\ currentTool = "move"
    /\ gesture.trail # <<>>
    /\ LastPos(gesture) # gesture.p0
    /\ gesture.pan0.x # 0
    /\ canvasCoords = gesture.pan0

====
